---------------------------- MODULE Spec2Model ----------------------------
(***************************************************************************)
(* A model of network/MobilenetV3.py: the channel adjuster, the            *)
(* construction of the MobileNetV3 feature stack with its per-block        *)
(* whitening modes, and the forward passes of SqueezeExcitation,           *)
(* ConvNormActivation, InvertedResidual and MobileNetV3, which hand a      *)
(* [tensor, accumulator] pair from stage to stage.                         *)
(*                                                                         *)
(* Tensors are modelled by their shapes.  The accumulator is one Python    *)
(* list object that every pair refers to: its contents are the variable    *)
(* w_arr, and a pair holds the reference ListRef.  A raised exception is   *)
(* the value Exc(e).                                                       *)
(***************************************************************************)
EXTENDS Integers, Sequences, FiniteSets, TLC

VARIABLES
    pc,             \* position of the running call
    args,           \* arguments of the _make_divisible call / of _mobilenet_v3_conf
    ret,            \* value returned by _make_divisible
    iw,             \* MobileNetV3.__init__'s selector list iw
    setting,        \* inverted_residual_setting: the configs (cnf.iw is assigned in place)
    feature_count,  \* MobileNetV3.__init__'s loop counter
    layers,         \* the modules of the nn.Sequential being built or run
    idx,            \* number of modules of layers already applied
    x_tuple,        \* the value handed to the next module / returned by the last
    x_in,           \* the value the first module of layers received
    w_in,           \* contents of the accumulator when that call began
    w_arr,          \* contents of the accumulator list object
    log,            \* modules applied by the last stage call, in order
    conv_x,         \* InvertedResidual.forward's local conv_x of the last call
    strict,         \* the build's InstanceNorm2d rejects a single spatial element
    training        \* nn.Module.training: TRUE after construction, FALSE after eval()

vars == <<pc, args, ret, iw, setting, feature_count, layers, idx, x_tuple,
          x_in, w_in, w_arr, log, conv_x, strict, training>>

\* ------------------------------------------------------------------ bounds
MaxVNum == 40
VScale == 4
MaxDivisor == 8
MaxMin == 9
MaxBlocks == 13
MaxNonZero == 1
MaxBatch == 3
MaxH == 6
MaxAcc == 2
ImageSize == 64

\* --------------------------------------------------------------- constants
NumClasses == 1000
StemStride == 2
StemKernel == 3
ImageChannels == 3
HeadFactor == 6
ChannelDivisor == 8
SeReduction == 4
SelLen == 7
SmallArchLen == 11

Modes == 0..4

Max(a, b) == IF a >= b THEN a ELSE b
Min(a, b) == IF a <= b THEN a ELSE b

\* ------------------------------------------------------------------ values
Tensor(shape) == [k |-> "Tensor", shape |-> shape]
NoneVal == [k |-> "None"]
ListRef == [k |-> "List"]
Matrix(c) == [k |-> "Matrix", c |-> c]
Pair(x, w) == [k |-> "Pair", x |-> x, w |-> w]
Exc(e) == [k |-> "Exc", e |-> e]

IsTensor(v) == v.k = "Tensor"
IsExc(v) == v.k = "Exc"
Rank(v) == Len(v.shape)

\* ---------------------------------------------------------- _make_divisible
\* v is the rational vn / VScale; min_value is <<>> (None) or <<m>>.
\* int(v + divisor/2) truncates, which is floor for v >= 0.  The comparison
\* new_v < 0.9 * v is taken exactly, as 10 * new_v < 9 * v.
RoundDownHalf(vn, divisor) ==
    (((2 * vn + divisor * VScale) \div (2 * VScale)) \div divisor) * divisor

\* faulty variant: the 10% rule dropped
MakeDivisibleNoBump(vn, divisor, min_value) ==
    LET m == IF min_value = <<>> THEN divisor ELSE min_value[1]
    IN  Max(m, RoundDownHalf(vn, divisor))

_make_divisible(vn, divisor, min_value) ==
    LET m == IF min_value = <<>> THEN divisor ELSE min_value[1]
        new_v == Max(m, RoundDownHalf(vn, divisor))
    IN  IF 10 * VScale * new_v < 9 * vn THEN new_v + divisor ELSE new_v

\* InvertedResidualConfig.adjust_channels with an integral product
adjust_channels(channels) == _make_divisible(channels * VScale, ChannelDivisor, <<>>)

\* -------------------------------------------------- InvertedResidualConfig
\* width_mult is 1.0 (the default of _mobilenet_v3_conf); activation is "RE" or "HS".
InvertedResidualConfig(input_channels, kernel, expanded_channels, out_channels, use_se, activation, stride, dilation, iw0) ==
    [input_channels |-> adjust_channels(input_channels),
     kernel |-> kernel,
     expanded_channels |-> adjust_channels(expanded_channels),
     out_channels |-> adjust_channels(out_channels),
     use_se |-> use_se,
     use_hs |-> (activation = "HS"),
     stride |-> stride,
     dilation |-> dilation,
     iw |-> iw0]

\* _mobilenet_v3_conf("mobilenet_v3_small", iw=iw0, reduced_tail, dilated)
_mobilenet_v3_conf(iw0, reduced_tail, dilated) ==
    LET reduce_divider == IF reduced_tail THEN 2 ELSE 1
        dilation == IF dilated THEN 2 ELSE 1
        c96 == 96 \div reduce_divider
        c576 == 576 \div reduce_divider
    IN  << InvertedResidualConfig(16, 3, 16, 16, TRUE, "RE", 2, 1, iw0),
           InvertedResidualConfig(16, 3, 72, 24, FALSE, "RE", 2, 1, iw0),
           InvertedResidualConfig(24, 3, 88, 24, FALSE, "RE", 1, 1, iw0),
           InvertedResidualConfig(24, 5, 96, 40, TRUE, "HS", 2, 1, iw0),
           InvertedResidualConfig(40, 5, 240, 40, TRUE, "HS", 1, 1, iw0),
           InvertedResidualConfig(40, 5, 240, 40, TRUE, "HS", 1, 1, iw0),
           InvertedResidualConfig(40, 5, 120, 48, TRUE, "HS", 1, 1, iw0),
           InvertedResidualConfig(48, 5, 144, 48, TRUE, "HS", 1, 1, iw0),
           InvertedResidualConfig(48, 5, 288, c96, TRUE, "HS", 2, dilation, iw0),
           InvertedResidualConfig(c96, 5, c576, c96, TRUE, "HS", 1, dilation, iw0),
           InvertedResidualConfig(c96, 5, c576, c96, TRUE, "HS", 1, dilation, iw0) >>

\* last_channel = adjust_channels(1024 // reduce_divider)
last_channel(reduced_tail) == adjust_channels(1024 \div (IF reduced_tail THEN 2 ELSE 1))

\* ------------------------------------------------------------ constructors
\* faulty variant: no padding at all
PaddingZero(kernel_size) == 0

\* padding = (kernel_size - 1) // 2: the dilation is not taken into account
Padding(kernel_size) == (kernel_size - 1) \div 2

\* The children nn.Sequential holds after ConvNormActivation.__init__, in
\* iteration order.  super().__init__ registers conv, norm, [activation] and the
\* whitening layer under "0".."3"; the assignment self.instance_norm_layer =
\* instance_norm_layer then registers the same layer once more under its
\* attribute name, so len(self) and enumerate(self) count it twice.
CNAModules(has_act) ==
    <<"Conv2d", "BatchNorm2d">>
        \o (IF has_act THEN <<"activation">> ELSE <<>>)
        \o <<"instance_norm_layer">>
        \o <<"instance_norm_layer">>

ConvNormActivation(in_planes, out_planes, kernel_size, stride, dilation, has_act, iw0) ==
    [type |-> "ConvNormActivation",
     in_planes |-> in_planes,
     out_planes |-> out_planes,
     kernel_size |-> kernel_size,
     stride |-> stride,
     padding |-> Padding(kernel_size),
     dilation |-> dilation,
     iw |-> iw0,
     modules |-> CNAModules(has_act)]

SqueezeExcitation(input_channels, squeeze_channels, iw0) ==
    [type |-> "SqueezeExcitation",
     input_channels |-> input_channels,
     squeeze_channels |-> squeeze_channels,
     iw |-> iw0]

\* the stages InvertedResidual.__init__ puts in self.conv, with their roles
IRLayers(cnf) ==
    (IF cnf.expanded_channels # cnf.input_channels
     THEN << [role |-> "expand",
              m |-> ConvNormActivation(cnf.input_channels, cnf.expanded_channels,
                                       1, 1, 1, TRUE, cnf.iw)] >>
     ELSE << >>)
    \o << [role |-> "depthwise",
           m |-> ConvNormActivation(cnf.expanded_channels, cnf.expanded_channels,
                                    cnf.kernel,
                                    IF cnf.dilation > 1 THEN 1 ELSE cnf.stride,
                                    cnf.dilation, TRUE, cnf.iw)] >>
    \o (IF cnf.use_se
        THEN << [role |-> "se",
                 m |-> SqueezeExcitation(
                           cnf.expanded_channels,
                           _make_divisible((cnf.expanded_channels \div SeReduction) * VScale,
                                           ChannelDivisor, <<>>),
                           0)] >>
        ELSE << >>)
    \o << [role |-> "project",
           m |-> ConvNormActivation(cnf.expanded_channels, cnf.out_channels,
                                    1, 1, 1, FALSE, cnf.iw)] >>

InvertedResidual(cnf) ==
    IF ~(1 <= cnf.stride /\ cnf.stride <= 2)
    THEN Exc("ValueError")
    ELSE [type |-> "InvertedResidual",
          cnf |-> cnf,
          use_res_connect |-> (cnf.stride = 1 /\ cnf.input_channels = cnf.out_channels),
          iw |-> cnf.iw,
          conv |-> IRLayers(cnf)]

\* ------------------------------------------------------- library modules
\* Each takes the value the forward code hands it and returns the value it
\* yields, or Exc(e) when it raises; an Exc argument is passed on, which models
\* the exception leaving the enclosing forward.

\* nn.Conv2d's output size along one spatial dimension; <= 0 when the padded
\* input is smaller than the dilated kernel
ConvOut(h, kernel_size, stride, padding, dilation) ==
    LET num == h + 2 * padding - dilation * (kernel_size - 1) - 1
    IN  IF num < 0 THEN 0 ELSE (num \div stride) + 1

\* nn.Conv2d on a batched (N,C,H,W) or unbatched (C,H,W) input
Conv2d(x, in_planes, out_planes, kernel_size, stride, padding, dilation) ==
    IF IsExc(x) THEN x
    ELSE IF ~IsTensor(x) THEN Exc("TypeError")
    ELSE IF Rank(x) \notin {3, 4} THEN Exc("RuntimeError")
    ELSE LET r == Rank(x)
             ho == ConvOut(x.shape[r - 1], kernel_size, stride, padding, dilation)
             wo == ConvOut(x.shape[r], kernel_size, stride, padding, dilation)
         IN  IF x.shape[r - 2] # in_planes \/ ho <= 0 \/ wo <= 0
             THEN Exc("RuntimeError")
             ELSE Tensor(SubSeq(x.shape, 1, r - 3) \o <<out_planes, ho, wo>>)

\* nn.BatchNorm2d: a 4-D input is required, and in training mode more than
\* one value per channel; the shape is kept
BatchNorm2d(x) ==
    IF IsExc(x) THEN x
    ELSE IF ~IsTensor(x) THEN Exc("AttributeError")
    ELSE IF Rank(x) # 4 THEN Exc("ValueError")
    ELSE IF training /\ x.shape[1] * x.shape[3] * x.shape[4] = 1 THEN Exc("ValueError")
    ELSE x

\* ReLU, Hardswish, Sigmoid, Hardsigmoid: element-wise on a tensor
Activation(x) ==
    IF IsExc(x) THEN x
    ELSE IF ~IsTensor(x) THEN Exc("TypeError")
    ELSE x

\* nn.AdaptiveAvgPool2d(1)
AdaptiveAvgPool2d(x) ==
    IF IsExc(x) THEN x
    ELSE IF ~IsTensor(x) THEN Exc("TypeError")
    ELSE IF Rank(x) \notin {3, 4} THEN Exc("RuntimeError")
    ELSE Tensor(SubSeq(x.shape, 1, Rank(x) - 2) \o <<1, 1>>)

\* nn.InstanceNorm2d; with a single spatial element the build either raises
\* (strict) or normalises
InstanceNorm2d(x) ==
    IF IsExc(x) THEN x
    ELSE IF ~IsTensor(x) THEN Exc("AttributeError")
    ELSE IF Rank(x) \notin {3, 4} THEN Exc("ValueError")
    ELSE IF strict /\ x.shape[Rank(x) - 1] * x.shape[Rank(x)] = 1 THEN Exc("ValueError")
    ELSE x

\* InstanceWhitening (network/instance_whitening.py): a tensor gives the pair
\* (normalised tensor, auxiliary matrix); anything else is no activation tensor
InstanceWhitening(x) ==
    IF IsExc(x) THEN x
    ELSE IF ~IsTensor(x) THEN Exc("TypeError")
    ELSE IF Rank(x) \notin {3, 4} THEN Exc("ValueError")
    ELSE Pair(x, Matrix(x.shape[Rank(x) - 2]))

\* the layer the constructors pick for a whitening mode; nn.Sequential() with
\* no children returns its input
InstanceNormLayer(iw0, x) ==
    IF iw0 \in {1, 2} THEN InstanceWhitening(x)
    ELSE IF iw0 \in {3, 4} THEN InstanceNorm2d(x)
    ELSE x

\* torch broadcasting of two shapes, aligned at the last dimension
RECURSIVE Broadcast(_, _)
Broadcast(a, b) ==
    IF a = <<>> THEN b
    ELSE IF b = <<>> THEN a
    ELSE LET da == a[Len(a)]
             db == b[Len(b)]
             rest == Broadcast(SubSeq(a, 1, Len(a) - 1), SubSeq(b, 1, Len(b) - 1))
         IN  IF rest = <<-1>> \/ (da # db /\ da # 1 /\ db # 1)
             THEN <<-1>>
             ELSE Append(rest, Max(da, db))

\* x + y and x * y on tensors
Elementwise(x, y) ==
    IF IsExc(x) THEN x
    ELSE IF IsExc(y) THEN y
    ELSE IF ~IsTensor(x) \/ ~IsTensor(y) THEN Exc("TypeError")
    ELSE LET sh == Broadcast(x.shape, y.shape)
         IN  IF sh = <<-1>> THEN Exc("RuntimeError") ELSE Tensor(sh)

\* len(x_tuple): 2 for a list or tuple of two, the first dimension for a tensor
PyLen(v) ==
    IF v.k = "Pair" THEN 2
    ELSE IF IsTensor(v) /\ Rank(v) >= 1 THEN v.shape[1]
    ELSE -1

\* x_tuple[0] and x_tuple[1]
Item0(v) == IF v.k = "Pair" THEN v.x ELSE Tensor(Tail(v.shape))
Item1(v) == IF v.k = "Pair" THEN v.w ELSE Tensor(Tail(v.shape))

\* what a forward call leaves: its return value (or Exc), the accumulator's
\* contents, the modules it applied, and InvertedResidual's conv_x
Result(val, acc, lg, cx) == [val |-> val, acc |-> acc, log |-> lg, conv_x |-> cx]

\* ---------------------------------------------------------- forward passes
\* The mode-dependent whitening step the three forwards end with:
\*     if self.iw >= 1:
\*         if self.iw == 1 or self.iw == 2:
\*             x, w = self.instance_norm_layer(x); w_arr.append(w)
\*         else: x = self.instance_norm_layer(x)
\* w is what the code holds as w_arr: the list, or whatever x_tuple[1] was.
WhitenTail(iw0, x, w, acc) ==
    IF IsExc(x) THEN [x |-> x, acc |-> acc, called |-> FALSE]
    ELSE IF iw0 >= 1
    THEN IF iw0 = 1 \/ iw0 = 2
         THEN LET r == InstanceNormLayer(iw0, x)
              IN  IF IsExc(r) THEN [x |-> r, acc |-> acc, called |-> TRUE]
                  ELSE IF r.k # "Pair"
                  THEN [x |-> Exc("ValueError"), acc |-> acc, called |-> TRUE]
                  ELSE IF w.k # "List"
                  THEN [x |-> Exc("AttributeError"), acc |-> acc, called |-> TRUE]
                  ELSE [x |-> r.x, acc |-> Append(acc, r.w), called |-> TRUE]
         ELSE [x |-> InstanceNormLayer(iw0, x), acc |-> acc, called |-> TRUE]
    ELSE [x |-> x, acc |-> acc, called |-> FALSE]

\* module(x) for a child of ConvNormActivation
ApplyModule(st, name, x) ==
    IF name = "Conv2d"
    THEN Conv2d(x, st.in_planes, st.out_planes, st.kernel_size, st.stride,
                st.padding, st.dilation)
    ELSE IF name = "BatchNorm2d" THEN BatchNorm2d(x)
    ELSE IF name = "activation" THEN Activation(x)
    ELSE InstanceNormLayer(st.iw, x)

\* for i, module in enumerate(self): the child at len(self) - 1 is replaced by
\* the whitening step, every other child is applied as module(x)
RECURSIVE CNALoop(_, _, _, _, _, _)
CNALoop(st, i, x, w, acc, lg) ==
    IF IsExc(x) THEN Result(x, acc, lg, NoneVal)
    ELSE IF i > Len(st.modules) THEN Result(Pair(x, w), acc, lg, NoneVal)
    ELSE IF i = Len(st.modules)
    THEN LET t == WhitenTail(st.iw, x, w, acc)
         IN  CNALoop(st, i + 1, t.x, w, t.acc,
                     IF t.called THEN Append(lg, st.modules[i]) ELSE lg)
    ELSE CNALoop(st, i + 1, ApplyModule(st, st.modules[i], x), w, acc,
                 Append(lg, st.modules[i]))

\* faulty variant: the returned pair carries a fresh list instead of w_arr
ConvNormActivationForwardFresh(st, xt, acc) ==
    IF xt.k = "None" THEN Result(Exc("TypeError"), acc, <<>>, NoneVal)
    ELSE IF PyLen(xt) # 2 THEN Result(NoneVal, acc, <<>>, NoneVal)
    ELSE LET r == CNALoop(st, 1, Item0(xt), Item1(xt), acc, <<>>)
         IN  Result(r.val, <<>>, r.log, NoneVal)

\* ConvNormActivation.forward
ConvNormActivationForward(st, xt, acc) ==
    IF xt.k = "None" THEN Result(Exc("TypeError"), acc, <<>>, NoneVal)
    ELSE IF PyLen(xt) # 2 THEN Result(NoneVal, acc, <<>>, NoneVal)
    ELSE CNALoop(st, 1, Item0(xt), Item1(xt), acc, <<>>)

\* SqueezeExcitation._scale
SEScale(st, inp) ==
    LET pooled == AdaptiveAvgPool2d(inp)
        fc1 == Conv2d(pooled, st.input_channels, st.squeeze_channels, 1, 1, 0, 1)
        act == Activation(fc1)
        fc2 == Conv2d(act, st.squeeze_channels, st.input_channels, 1, 1, 0, 1)
        normed == IF IsExc(fc2) THEN fc2 ELSE InstanceNormLayer(st.iw, fc2)
    IN  Activation(normed)

\* SqueezeExcitation.forward
SqueezeExcitationForward(st, xt, acc) ==
    IF xt.k = "None" THEN Result(Exc("TypeError"), acc, <<>>, NoneVal)
    ELSE IF PyLen(xt) # 2 THEN Result(NoneVal, acc, <<>>, NoneVal)
    ELSE LET x == Item0(xt)
             w == Item1(xt)
             t == WhitenTail(st.iw, SEScale(st, x), w, acc)
             y == Elementwise(t.x, x)
         IN  IF IsExc(y) THEN Result(y, t.acc, <<>>, NoneVal)
             ELSE Result(Pair(y, w), t.acc, <<>>, NoneVal)

\* self.conv[j](x_tuple) for a child of InvertedResidual.conv
InnerForward(m, xt, acc) ==
    IF m.type = "SqueezeExcitation"
    THEN SqueezeExcitationForward(m, xt, acc)
    ELSE ConvNormActivationForward(m, xt, acc)

\* the indices of self.conv that InvertedResidual.forward applies, in order
IRIndices(st) ==
    IF st.cnf.expanded_channels # st.cnf.input_channels
    THEN <<0, 1, 2>> \o (IF Len(st.conv) > 3 THEN <<3>> ELSE <<>>)
    ELSE <<0, 1, 2>>

\* x_tuple = self.conv[j](x_tuple) for the indices todo; self.conv[j] raises
\* IndexError when self.conv has no child j
RECURSIVE IRRun(_, _, _, _, _)
IRRun(st, todo, xt, acc, lg) ==
    IF todo = <<>> \/ IsExc(xt) THEN Result(xt, acc, lg, NoneVal)
    ELSE IF todo[1] >= Len(st.conv)
    THEN Result(Exc("IndexError"), acc, lg, NoneVal)
    ELSE LET child == st.conv[todo[1] + 1]
             r == InnerForward(child.m, xt, acc)
         IN  IRRun(st, Tail(todo), r.val, r.acc, Append(lg, child.role))

\* InvertedResidual.forward, the return: [x, w_arr] after the whitening step t
IRReturn(r, cx, w, t) ==
    Result(IF IsExc(t.x) THEN t.x ELSE Pair(t.x, w),
           t.acc,
           IF t.called THEN Append(r.log, "instance_norm_layer") ELSE r.log,
           cx)

\* InvertedResidual.forward after the convolutional stages returned r:
\* conv_x = x_tuple[0]; w_arr = x_tuple[1]; the residual add or passthrough;
\* the whitening step
IRAfterConv(st, x, r) ==
    IF IsExc(r.val) THEN r
    ELSE IF r.val.k = "None" THEN Result(Exc("TypeError"), r.acc, r.log, NoneVal)
    ELSE IRReturn(r, Item0(r.val), Item1(r.val),
                  WhitenTail(st.iw,
                             IF st.use_res_connect
                             THEN Elementwise(x, Item0(r.val))
                             ELSE Item0(r.val),
                             Item1(r.val), r.acc))

\* InvertedResidual.forward
InvertedResidualForward(st, xt, acc) ==
    IF xt.k = "None" THEN Result(Exc("TypeError"), acc, <<>>, NoneVal)
    ELSE IF PyLen(xt) # 2 THEN Result(NoneVal, acc, <<>>, NoneVal)
    ELSE IRAfterConv(st, Item0(xt), IRRun(st, IRIndices(st), xt, acc, <<>>))

\* module(input) for a child of an nn.Sequential of stages
StageForward(st, xt, acc) ==
    IF st.type = "InvertedResidual" THEN InvertedResidualForward(st, xt, acc)
    ELSE InnerForward(st, xt, acc)

\* ------------------------------------------------- MobileNetV3.__init__
IwLayer == <<0, 2, 7, 11, 12>>

\* iw_layer.index(feature_count), 0-based
IwLayerIndex(fc) == (CHOOSE j \in 1..Len(IwLayer) : IwLayer[j] = fc) - 1

\* faulty variant: a block outside iw_layer keeps the mode its config came with
WhiteningModeKeep(fc, sel, old) ==
    IF \E j \in 1..Len(IwLayer) : IwLayer[j] = fc
    THEN sel[IwLayerIndex(fc) + 2 + 1]
    ELSE old

\* faulty variant: the lookup is matched against the 0-based position of the block
WhiteningModeZeroBased(fc, sel, old) ==
    IF \E j \in 1..Len(IwLayer) : IwLayer[j] = fc - 1
    THEN sel[IwLayerIndex(fc - 1) + 2 + 1]
    ELSE 0

\* the value assigned to cnf.iw when feature_count (already incremented) is fc:
\* iw[layer + 2] if fc is in iw_layer, else 0 (sel is 1-based here)
WhiteningMode(fc, sel, old) ==
    IF \E j \in 1..Len(IwLayer) : IwLayer[j] = fc
    THEN sel[IwLayerIndex(fc) + 2 + 1]
    ELSE 0

\* the first layer: Conv2dNormActivation(3, firstconv_output_channels, 3, stride=2, Hardswish)
FirstLayer(cnfs) ==
    ConvNormActivation(ImageChannels, cnfs[1].input_channels, StemKernel, StemStride,
                       1, TRUE, 0)

\* the last layer: Conv2dNormActivation(lastconv_input_channels, 6 * it, kernel_size=1, Hardswish)
LastLayer(cnfs) ==
    ConvNormActivation(cnfs[Len(cnfs)].out_channels,
                       HeadFactor * cnfs[Len(cnfs)].out_channels, 1, 1, 1, TRUE, 0)

\* the config list after the loop has assigned every cnf.iw
AssignedSetting(cnfs, sel) ==
    [i \in 1..Len(cnfs) |-> [cnfs[i] EXCEPT !.iw = WhiteningMode(i, sel, cnfs[i].iw)]]

\* self.features of MobileNetV3(cnfs, ..., iw=sel)
BuildFeatures(cnfs, sel) ==
    <<FirstLayer(cnfs)>>
        \o [i \in 1..Len(cnfs) |-> InvertedResidual(AssignedSetting(cnfs, sel)[i])]
        \o <<LastLayer(cnfs)>>

\* selector lists of SelLen modes with at most MaxNonZero entries that are not 0
Selectors ==
    {s \in [1..SelLen -> Modes] : Cardinality({j \in 1..SelLen : s[j] # 0}) <= MaxNonZero}

\* a config list of n entries: the small architecture, cut or extended by
\* repeating its last entry, every config created with mode m
Setting(n, m) ==
    LET conf == _mobilenet_v3_conf(m, FALSE, FALSE)
    IN  [i \in 1..n |-> conf[Min(i, SmallArchLen)]]

InitAssemble ==
    /\ pc = "building"
    /\ ret = 0
    /\ iw \in Selectors
    /\ \E n \in 1..MaxBlocks, m \in Modes :
           /\ setting = Setting(n, m)
           /\ args = [iw0 |-> m]
    /\ feature_count = 0
    /\ layers = <<FirstLayer(setting)>>
    /\ idx = 0 /\ x_tuple = NoneVal /\ x_in = NoneVal /\ w_in = <<>> /\ w_arr = <<>>
    /\ log = <<>> /\ conv_x = NoneVal /\ strict = TRUE /\ training = TRUE

\* one iteration of "for cnf in inverted_residual_setting"
BuildBlock ==
    /\ pc = "building"
    /\ feature_count < Len(setting)
    /\ LET fc == feature_count + 1
           cnf == [setting[fc] EXCEPT !.iw = WhiteningMode(fc, iw, setting[fc].iw)]
       IN  /\ feature_count' = fc
           /\ setting' = [setting EXCEPT ![fc] = cnf]
           /\ layers' = Append(layers, InvertedResidual(cnf))
    /\ UNCHANGED <<pc, args, ret, iw, idx, x_tuple, x_in, w_in, w_arr, log, conv_x, strict, training>>

\* the loop is over: the last layer is appended and self.features is complete
BuildLast ==
    /\ pc = "building"
    /\ feature_count = Len(setting)
    /\ layers' = Append(layers, LastLayer(setting))
    /\ pc' = "built"
    /\ UNCHANGED <<args, ret, iw, setting, feature_count, idx, x_tuple, x_in, w_in,
                   w_arr, log, conv_x, strict, training>>

NextAssemble == BuildBlock \/ BuildLast

SpecAssemble == InitAssemble /\ [][NextAssemble]_vars

\* the blocks built so far: layers without the first layer (and the last one)
BuiltBlocks == SubSeq(layers, 2, feature_count + 1)

\* C3 (as stated): a block takes its mode from the selector list exactly when
\* its 1-indexed position is one of {1,3,8,12,13}; any other block gets mode 0.
C3_Original ==
    \A i \in 1..Len(BuiltBlocks) :
        BuiltBlocks[i].iw =
            (IF i \in {1, 3, 8, 12, 13} THEN iw[IwLayerIndex(i - 1) + 2 + 1] ELSE 0)

\* C3 (amended): a block takes its mode from the selector list, entry
\* iw[iw_layer.index(p) + 2], exactly when its 1-indexed position p is one of
\* {2,7,11,12}; any other block gets mode 0 (the lookup's entry 0 never matches
\* and iw[0], iw[1], iw[2] are never read).
C3_SelectorPositions ==
    \A i \in 1..Len(BuiltBlocks) :
        BuiltBlocks[i].iw =
            (IF i = 2 THEN iw[4] ELSE IF i = 7 THEN iw[5] ELSE IF i = 11 THEN iw[6]
             ELSE IF i = 12 THEN iw[7] ELSE 0)

\* a finished network of 12 or more blocks whose 12th block took a mode > 0
C3_Witness ==
    /\ pc = "built"
    /\ Len(BuiltBlocks) >= 12
    /\ BuiltBlocks[12].iw > 0
    /\ BuiltBlocks[12].iw = iw[7]

\* C4: after construction every block's whitening_mode is in {0..4}, and every
\* block whose feature count is not in {0,2,7,11,12} has mode 0, whatever mode
\* its config carried before.
C4_ModesAfterAssembly ==
    \A i \in 1..Len(BuiltBlocks) :
        /\ BuiltBlocks[i].iw \in Modes
        /\ i \notin {0, 2, 7, 11, 12} => BuiltBlocks[i].iw = 0

\* a finished network whose configs came with a mode > 0: a block outside the
\* lookup was forced to 0 and a block inside it took a mode > 0
C4_Witness ==
    /\ pc = "built"
    /\ Len(BuiltBlocks) >= 7
    /\ args.iw0 > 0
    /\ BuiltBlocks[1].iw = 0
    /\ BuiltBlocks[7].iw > 0

\* ------------------------------------------------------- running stages
\* nn.Sequential.forward, one child per step: input = module(input)
SequentialStep ==
    /\ pc = "sequential"
    /\ idx < Len(layers)
    /\ \E r \in {StageForward(layers[idx + 1], x_tuple, w_arr)} :
           /\ x_tuple' = r.val
           /\ w_arr' = r.acc
           /\ log' = r.log
           /\ conv_x' = IF layers[idx + 1].type = "InvertedResidual"
                        THEN r.conv_x ELSE conv_x
           /\ idx' = idx + 1
           /\ pc' = IF IsExc(r.val) THEN "raised"
                    ELSE IF idx + 1 = Len(layers) THEN "sequential_done"
                    ELSE "sequential"
    /\ UNCHANGED <<args, ret, iw, setting, feature_count, layers, x_in, w_in, strict,
                   training>>

\* the rest of MobileNetV3._forward_impl: avgpool, flatten, classifier
AvgPoolClassify ==
    /\ pc = "sequential_done"
    /\ setting # <<>>
    /\ LET pooled == AdaptiveAvgPool2d(x_tuple)
           flat == IF IsExc(pooled) THEN pooled
                   ELSE IF Rank(pooled) # 4 THEN Exc("RuntimeError")
                   ELSE Tensor(<<pooled.shape[1], pooled.shape[2]>>)
           out == IF IsExc(flat) THEN flat
                  ELSE IF flat.shape[2] # HeadFactor * setting[Len(setting)].out_channels
                  THEN Exc("RuntimeError")
                  ELSE Tensor(<<flat.shape[1], NumClasses>>)
       IN  /\ x_tuple' = out
           /\ pc' = IF IsExc(out) THEN "head_raised" ELSE "returned"
    /\ UNCHANGED <<args, ret, iw, setting, feature_count, layers, idx, x_in, w_in,
                   w_arr, log, conv_x, strict, training>>

\* accumulators a caller may hand in: up to MaxAcc earlier entries
Accumulators == UNION {[1..n -> {Matrix(0)}] : n \in 0..MaxAcc}

\* the configs of the small architecture with use_se and the mode varied
StageConfigs ==
    LET conf == _mobilenet_v3_conf(0, FALSE, FALSE)
    IN  {[conf[i] EXCEPT !.use_se = s, !.iw = m] :
            i \in 1..SmallArchLen, s \in BOOLEAN, m \in Modes}

\* single stages with the channel count they take
Stages ==
    LET c1 == _mobilenet_v3_conf(0, FALSE, FALSE)[1].input_channels
    IN  {[st |-> ConvNormActivation(ImageChannels, c1, StemKernel, StemStride, 1, a, m),
          c |-> ImageChannels] : a \in BOOLEAN, m \in Modes}
        \cup {[st |-> SqueezeExcitation(
                          c1,
                          _make_divisible((c1 \div SeReduction) * VScale, ChannelDivisor, <<>>),
                          m),
                c |-> c1] : m \in Modes}
        \cup {[st |-> InvertedResidual(cnf), c |-> cnf.input_channels] :
                  cnf \in StageConfigs}

\* one stage called on a [tensor, accumulator] pair
InitStage ==
    /\ pc = "sequential"
    /\ args = <<>> /\ ret = 0 /\ iw = <<>> /\ setting = <<>> /\ feature_count = 0
    /\ \E s \in Stages :
           /\ layers = <<s.st>>
           /\ x_in = Pair(Tensor(<<1, s.c, ImageSize, ImageSize>>), ListRef)
    /\ x_tuple = x_in
    /\ idx = 0
    /\ w_in \in Accumulators
    /\ w_arr = w_in
    /\ log = <<>> /\ conv_x = NoneVal
    /\ strict \in BOOLEAN
    /\ training \in BOOLEAN

NextStage == SequentialStep

SpecStage == InitStage /\ [][NextStage]_vars

\* MobileNetV3(_mobilenet_v3_conf("mobilenet_v3_small"), iw=iw).forward(x_in)
InitNet ==
    /\ pc = "sequential"
    /\ args = <<>> /\ ret = 0
    /\ iw \in Selectors
    /\ setting = AssignedSetting(_mobilenet_v3_conf(0, FALSE, FALSE), iw)
    /\ feature_count = Len(setting)
    /\ layers = BuildFeatures(_mobilenet_v3_conf(0, FALSE, FALSE), iw)
    /\ x_in \in {Tensor(<<b, ImageChannels, ImageSize, ImageSize>>) : b \in 1..MaxBatch}
            \cup {Pair(Tensor(<<b, ImageChannels, ImageSize, ImageSize>>), ListRef) :
                     b \in 1..MaxBatch}
    /\ x_tuple = x_in
    /\ idx = 0
    /\ w_in \in (IF IsTensor(x_in) THEN {<<>>} ELSE Accumulators)
    /\ w_arr = w_in
    /\ log = <<>> /\ conv_x = NoneVal
    /\ strict \in BOOLEAN
    /\ training \in BOOLEAN

NextNet == SequentialStep \/ AvgPoolClassify

SpecNet == InitNet /\ [][NextNet]_vars

\* a single inverted residual block of _mobilenet_v3_conf(reduced_tail, dilated),
\* called on a pair whose tensor is (batch, input_channels, H, W)
InitShape ==
    /\ pc = "sequential"
    /\ args = <<>> /\ ret = 0 /\ iw = <<>> /\ setting = <<>> /\ feature_count = 0
    /\ \E rt \in BOOLEAN, dl \in BOOLEAN, i \in 1..SmallArchLen,
          b \in 1..MaxBatch, h \in 1..MaxH, w \in 1..MaxH :
           LET cnf == _mobilenet_v3_conf(0, rt, dl)[i]
           IN  /\ layers = <<InvertedResidual(cnf)>>
               /\ x_in = Pair(Tensor(<<b, cnf.input_channels, h, w>>), ListRef)
    /\ x_tuple = x_in
    /\ idx = 0
    /\ w_in = <<>> /\ w_arr = <<>>
    /\ log = <<>> /\ conv_x = NoneVal
    /\ strict = TRUE
    /\ training \in BOOLEAN

NextShape == SequentialStep

SpecShape == InitShape /\ [][NextShape]_vars

\* a single stage call or a pass through a network's features
InitForward == InitStage \/ InitNet

NextForward == SequentialStep \/ AvgPoolClassify

SpecForward == InitForward /\ [][NextForward]_vars

IsPrefix(a, b) == Len(a) <= Len(b) /\ SubSeq(b, 1, Len(a)) = a

CeilHalf(n) == (n + 1) \div 2

\* the call of the single stage has ended
StageEnded == Len(layers) = 1 /\ idx = 1

\* C1 (as stated): MobileNetV3.forward on a plain (batch, 3, H, W) tensor never
\* raises, every stage is handed a [tensor, accumulator] pair, and the call
\* returns a (batch, num_classes) tensor.
C1_Original ==
    IsTensor(x_in) =>
        /\ pc \notin {"raised", "head_raised"}
        /\ (pc = "sequential" /\ idx >= 1) => x_tuple.k = "Pair"
        /\ pc = "returned" => x_tuple = Tensor(<<x_in.shape[1], NumClasses>>)

\* the blocks of the network whose assigned mode is 1 or 2
WhiteningBlocks == {i \in 1..Len(setting) : setting[i].iw \in {1, 2}}

\* C2 (as stated): a pass through all feature stages of the small architecture,
\* started from an empty accumulator, completes and leaves one accumulator
\* entry per block whose mode is 1 or 2.
C2_Original ==
    (x_in.k = "Pair" /\ w_in = <<>>) =>
        /\ pc # "raised"
        /\ idx = Len(layers) => Len(w_arr) = Cardinality(WhiteningBlocks)

\* C6 (as stated): for a block with stride == 1 and input_channels ==
\* out_channels the tensor the convolutional stages produce has the input's
\* shape, the residual add succeeds and the output shape equals the input shape.
C6_Original ==
    (StageEnded /\ layers[1].use_res_connect /\ IsTensor(conv_x)) =>
        /\ pc = "sequential_done"
        /\ conv_x = x_in.x
        /\ x_tuple.x = x_in.x

MoreThanOneValue == x_in.x.shape[1] * CeilHalf(x_in.x.shape[3]) * CeilHalf(x_in.x.shape[4]) > 1

PipelineOf(st) ==
    <<"Conv2d", "BatchNorm2d">>
        \o (IF \E j \in 1..Len(st.modules) : st.modules[j] = "activation"
            THEN <<"activation">> ELSE <<>>)
        \o <<"instance_norm_layer">>

\* C8 (as stated): one ConvNormActivation.forward on a pair applies
\* convolution, normalization, activation (if present) and whitening, each
\* once and in this order; the accumulator grows by one entry for mode 1 or 2
\* and keeps its length for mode 0, 3 or 4.
C8_Original ==
    (StageEnded /\ layers[1].type = "ConvNormActivation") =>
        /\ pc = "sequential_done"
        /\ log = PipelineOf(layers[1])
        /\ Len(w_arr) = Len(w_in) + (IF layers[1].iw \in {1, 2} THEN 1 ELSE 0)

\* the children of self.conv the last InvertedResidual.forward applied
StagesRun == SelectSeq(log, LAMBDA e : e # "instance_norm_layer")

\* the children InvertedResidual.__init__ placed in self.conv
StagesBuilt(st) == [j \in 1..Len(st.conv) |-> st.conv[j].role]

\* C9 (as stated): InvertedResidual.forward runs the stages construction
\* placed in the block, each once and in construction order, never skips one
\* and never indexes one that was not constructed.
C9_Original ==
    (StageEnded /\ layers[1].type = "InvertedResidual") =>
        /\ x_tuple # Exc("IndexError")
        /\ IsPrefix(StagesRun, StagesBuilt(layers[1]))
        /\ pc = "sequential_done" => StagesRun = StagesBuilt(layers[1])

Idle ==
    /\ iw = <<>> /\ setting = <<>> /\ feature_count = 0 /\ layers = <<>>
    /\ idx = 0 /\ x_tuple = NoneVal /\ x_in = NoneVal /\ w_in = <<>> /\ w_arr = <<>>
    /\ log = <<>> /\ conv_x = NoneVal /\ strict = TRUE /\ training = TRUE

InitDiv ==
    /\ pc = "call"
    /\ args \in [v : 0..MaxVNum, divisor : 1..MaxDivisor,
                 min_value : {<<>>} \cup {<<m>> : m \in 0..MaxMin}]
    /\ ret = 0
    /\ Idle

MakeDivisibleCall ==
    /\ pc = "call"
    /\ args # <<>>
    /\ ret' = _make_divisible(args.v, args.divisor, args.min_value)
    /\ pc' = "return"
    /\ UNCHANGED <<args, iw, setting, feature_count, layers, idx, x_tuple,
                   x_in, w_in, w_arr, log, conv_x, strict, training>>

NextDiv == MakeDivisibleCall

SpecDiv == InitDiv /\ [][NextDiv]_vars

\* C5 (as stated): for every v >= 0, divisor > 0 and optional minimum, the
\* result is a multiple of divisor, >= minimum and >= 0.9 * v.
C5_Original ==
    pc = "return" =>
        /\ ret % args.divisor = 0
        /\ ret >= (IF args.min_value = <<>> THEN args.divisor ELSE args.min_value[1])
        /\ 10 * VScale * ret >= 9 * args.v

\* C5 (amended): the result is >= minimum and >= 0.9 * v for every minimum,
\* and a multiple of divisor when the minimum is absent or itself a multiple
\* of divisor.
C5_MakeDivisible ==
    pc = "return" =>
        /\ ret >= (IF args.min_value = <<>> THEN args.divisor ELSE args.min_value[1])
        /\ 10 * VScale * ret >= 9 * args.v
        /\ (args.min_value = <<>> \/ args.min_value[1] % args.divisor = 0)
               => ret % args.divisor = 0

\* the 10% rule fired: rounding down lost more than a tenth and a step was added
C5_Witness ==
    /\ pc = "return"
    /\ args.min_value = <<>>
    /\ ret = RoundDownHalf(args.v, args.divisor) + args.divisor
    /\ ret > args.divisor

=============================================================================
